---- MODULE Spec2Model ----
(***************************************************************************)
(* EasyHelm (easyhelm.py): an interactive generator that asks a fixed      *)
(* series of questions on stdin and writes a Helm chart (Chart.yaml,       *)
(* values.yaml and three templates) under a directory named after the      *)
(* chart.                                                                  *)
(*                                                                         *)
(* Python strings are sequences of one-character strings, so that          *)
(* str.lower, str.split, int() and the key sort of yaml.dump can be        *)
(* computed the way the interpreter computes them.  Python objects are     *)
(* tagged records (None, str, int, bool, list, dict); a dict is the        *)
(* sequence of its items in insertion order.                               *)
(***************************************************************************)
EXTENDS Integers, Sequences, FiniteSets, TLC

(***************************************************************************)
(* Bounds of the model: how many entries the two input loops accept        *)
(* before the operator is taken to answer with the empty line.             *)
(***************************************************************************)
MaxEnv == 2
MaxArgs == 2

(***************************************************************************)
(* String literals of the source.                                          *)
(***************************************************************************)
k_namespace == <<"n", "a", "m", "e", "s", "p", "a", "c", "e">>
k_replicaCount == <<"r", "e", "p", "l", "i", "c", "a", "C", "o", "u", "n", "t">>
k_image == <<"i", "m", "a", "g", "e">>
k_repository == <<"r", "e", "p", "o", "s", "i", "t", "o", "r", "y">>
k_pullPolicy == <<"p", "u", "l", "l", "P", "o", "l", "i", "c", "y">>
k_tag == <<"t", "a", "g">>
k_resources == <<"r", "e", "s", "o", "u", "r", "c", "e", "s">>
k_securityContext == <<"s", "e", "c", "u", "r", "i", "t", "y", "C", "o", "n", "t", "e", "x", "t">>
k_automountServiceAccountToken == <<"a", "u", "t", "o", "m", "o", "u", "n", "t", "S", "e", "r", "v", "i", "c", "e", "A", "c", "c", "o", "u", "n", "t", "T", "o", "k", "e", "n">>
k_imagePullSecrets == <<"i", "m", "a", "g", "e", "P", "u", "l", "l", "S", "e", "c", "r", "e", "t", "s">>
k_name == <<"n", "a", "m", "e">>
k_nameOverride == <<"n", "a", "m", "e", "O", "v", "e", "r", "r", "i", "d", "e">>
k_fullnameOverride == <<"f", "u", "l", "l", "n", "a", "m", "e", "O", "v", "e", "r", "r", "i", "d", "e">>
k_serviceAccount == <<"s", "e", "r", "v", "i", "c", "e", "A", "c", "c", "o", "u", "n", "t">>
k_probes == <<"p", "r", "o", "b", "e", "s">>
k_env == <<"e", "n", "v">>
k_args == <<"a", "r", "g", "s">>
k_limits == <<"l", "i", "m", "i", "t", "s">>
k_requests == <<"r", "e", "q", "u", "e", "s", "t", "s">>
k_cpu == <<"c", "p", "u">>
k_memory == <<"m", "e", "m", "o", "r", "y">>
k_allowPrivilegeEscalation == <<"a", "l", "l", "o", "w", "P", "r", "i", "v", "i", "l", "e", "g", "e", "E", "s", "c", "a", "l", "a", "t", "i", "o", "n">>
k_readOnlyRootFilesystem == <<"r", "e", "a", "d", "O", "n", "l", "y", "R", "o", "o", "t", "F", "i", "l", "e", "s", "y", "s", "t", "e", "m">>
k_runAsNonRoot == <<"r", "u", "n", "A", "s", "N", "o", "n", "R", "o", "o", "t">>
k_runAsUser == <<"r", "u", "n", "A", "s", "U", "s", "e", "r">>
k_enabled == <<"e", "n", "a", "b", "l", "e", "d">>
k_settings == <<"s", "e", "t", "t", "i", "n", "g", "s">>
k_livenessProbeInitialDelaySeconds == <<"l", "i", "v", "e", "n", "e", "s", "s", "P", "r", "o", "b", "e", "I", "n", "i", "t", "i", "a", "l", "D", "e", "l", "a", "y", "S", "e", "c", "o", "n", "d", "s">>
k_readinessProbeInitialDelaySeconds == <<"r", "e", "a", "d", "i", "n", "e", "s", "s", "P", "r", "o", "b", "e", "I", "n", "i", "t", "i", "a", "l", "D", "e", "l", "a", "y", "S", "e", "c", "o", "n", "d", "s">>
k_value == <<"v", "a", "l", "u", "e">>
s_my_chart == <<"m", "y", "-", "c", "h", "a", "r", "t">>
s_default == <<"d", "e", "f", "a", "u", "l", "t">>
s_my_image == <<"m", "y", "-", "i", "m", "a", "g", "e">>
s_1 == <<"1">>
s_no == <<"n", "o">>
s_yes == <<"y", "e", "s">>
s_0 == <<"0">>
s_2 == <<"2">>
s_deployment == <<"-", "d", "e", "p", "l", "o", "y", "m", "e", "n", "t">>
s_service == <<"-", "s", "e", "r", "v", "i", "c", "e">>
s_serviceaccount == <<"-", "s", "e", "r", "v", "i", "c", "e", "a", "c", "c", "o", "u", "n", "t">>
s_Always == <<"A", "l", "w", "a", "y", "s">>
s_latest == <<"l", "a", "t", "e", "s", "t">>
s_0_5 == <<"0", ".", "5">>
s_512Mi == <<"5", "1", "2", "M", "i">>
s_100m == <<"1", "0", "0", "m">>
s_256Mi == <<"2", "5", "6", "M", "i">>

(***************************************************************************)
(* Characters and their code points (the ASCII subset the model uses).     *)
(***************************************************************************)
Upper == <<"A", "B", "C", "D", "E", "F", "G", "H", "I", "J", "K", "L", "M",
           "N", "O", "P", "Q", "R", "S", "T", "U", "V", "W", "X", "Y", "Z">>
Lower == <<"a", "b", "c", "d", "e", "f", "g", "h", "i", "j", "k", "l", "m",
           "n", "o", "p", "q", "r", "s", "t", "u", "v", "w", "x", "y", "z">>
Digits == <<"0", "1", "2", "3", "4", "5", "6", "7", "8", "9">>

IndexIn(c, tbl) == CHOOSE i \in 1..Len(tbl) : tbl[i] = c
IsIn(c, tbl) == \E i \in 1..Len(tbl) : tbl[i] = c

\* ord(c)
Ord(c) ==
    IF IsIn(c, Upper) THEN 64 + IndexIn(c, Upper)
    ELSE IF IsIn(c, Lower) THEN 96 + IndexIn(c, Lower)
    ELSE IF IsIn(c, Digits) THEN 47 + IndexIn(c, Digits)
    ELSE CASE c = "+" -> 43
           [] c = "-" -> 45
           [] c = "." -> 46
           [] c = "=" -> 61

\* str.__lt__: lexicographic comparison by code point
RECURSIVE StrLess(_, _)
StrLess(a, b) ==
    IF b = <<>> THEN FALSE
    ELSE IF a = <<>> THEN TRUE
    ELSE IF Head(a) # Head(b) THEN Ord(Head(a)) < Ord(Head(b))
    ELSE StrLess(Tail(a), Tail(b))

\* str.lower
StrLower(s) ==
    [i \in 1..Len(s) |-> IF IsIn(s[i], Upper) THEN Lower[IndexIn(s[i], Upper)]
                                              ELSE s[i]]

\* faulty variant: str.rsplit(sep, 1), the split at the last occurrence
Split1Last(s, sep) ==
    IF \E i \in 1..Len(s) : s[i] = sep
    THEN LET p == CHOOSE i \in 1..Len(s) :
                      s[i] = sep /\ \A j \in (i + 1)..Len(s) : s[j] # sep
         IN  <<SubSeq(s, 1, p - 1), SubSeq(s, p + 1, Len(s))>>
    ELSE <<s>>

\* str.split(sep, 1): the pieces around the first occurrence of sep
Split1(s, sep) ==
    IF \E i \in 1..Len(s) : s[i] = sep
    THEN LET p == CHOOSE i \in 1..Len(s) :
                      s[i] = sep /\ \A j \in 1..(i - 1) : s[j] # sep
         IN  <<SubSeq(s, 1, p - 1), SubSeq(s, p + 1, Len(s))>>
    ELSE <<s>>

\* int(s) accepts an optional sign followed by one or more decimal digits
\* (blanks and underscores, which int() also tolerates, are not among the
\* characters of the model).
\* faulty variant: a sign without digits passes for an integer
IsIntLiteralLenient(s) ==
    LET body == IF s # <<>> /\ Head(s) \in {"+", "-"} THEN Tail(s) ELSE s
    IN  \A i \in 1..Len(body) : IsIn(body[i], Digits)

IsIntLiteral(s) ==
    LET body == IF s # <<>> /\ Head(s) \in {"+", "-"} THEN Tail(s) ELSE s
    IN  body # <<>> /\ \A i \in 1..Len(body) : IsIn(body[i], Digits)

RECURSIVE DecimalValue(_)
DecimalValue(ds) ==
    IF ds = <<>> THEN 0
    ELSE 10 * DecimalValue(SubSeq(ds, 1, Len(ds) - 1))
         + (IndexIn(ds[Len(ds)], Digits) - 1)

\* faulty variant: the sign is dropped
IntValueUnsigned(s) ==
    IF Head(s) \in {"+", "-"} THEN DecimalValue(Tail(s)) ELSE DecimalValue(s)

IntValue(s) ==
    IF Head(s) = "-" THEN 0 - DecimalValue(Tail(s))
    ELSE IF Head(s) = "+" THEN DecimalValue(Tail(s))
    ELSE DecimalValue(s)

(***************************************************************************)
(* Python objects.                                                         *)
(***************************************************************************)
PyNone == [t |-> "None"]
PyStr(s) == [t |-> "str", v |-> s]
PyInt(n) == [t |-> "int", v |-> n]
PyBool(b) == [t |-> "bool", v |-> b]
PyList(xs) == [t |-> "list", v |-> xs]
PyDict(items) == [t |-> "dict", v |-> items]
Item(key, val) == [k |-> key, v |-> val]

\* truth value of an object, as `if x` / `x or y` / `x if x else y` test it
Truthy(x) ==
    CASE x.t = "None" -> FALSE
      [] x.t = "str" -> x.v # <<>>
      [] x.t = "int" -> x.v # 0
      [] x.t = "bool" -> x.v
      [] x.t = "list" -> x.v # <<>>
      [] x.t = "dict" -> x.v # <<>>

\* dict.keys(): the keys in insertion order
Keys(d) == [i \in 1..Len(d.v) |-> d.v[i].k]
HasKey(d, key) == \E i \in 1..Len(d.v) : d.v[i].k = key
\* d[key]
Get(d, key) == d.v[CHOOSE i \in 1..Len(d.v) : d.v[i].k = key].v


\* faulty variant: `x if x else None`
IfElseNone(x, d) == IF Truthy(x) THEN x ELSE PyNone

\* `x if x else d`
IfElse(x, d) == IF Truthy(x) THEN x ELSE d

\* xs.append(x)
append(xs, x) == PyList(Append(xs.v, x))

(***************************************************************************)
(* ask_question: the line read from stdin, or the default when the line    *)
(* is empty (`input(...) or default`).  A question asked without a         *)
(* default yields None for an empty line.                                  *)
(***************************************************************************)
ask_question(line, default) ==
    IF Truthy(PyStr(line)) THEN PyStr(line) ELSE default

(***************************************************************************)
(* generate_values: the values document and the three derived names.       *)
(***************************************************************************)
generate_values(chart_name, namespace, image, replicas, env_vars, args, resources, security_context, image_pull_secrets, probes) ==
    LET deployment_name == PyStr(chart_name.v \o s_deployment)
        service_name == PyStr(chart_name.v \o s_service)
        service_account_name == PyStr(chart_name.v \o s_serviceaccount)
        values == PyDict(<<
            Item(k_namespace, namespace),
            Item(k_replicaCount, replicas),
            Item(k_image, PyDict(<<
                Item(k_repository, image),
                Item(k_pullPolicy, PyStr(s_Always)),
                Item(k_tag, PyStr(s_latest))>>)),
            Item(k_resources, IfElse(resources, PyDict(<<>>))),
            Item(k_securityContext, IfElse(security_context, PyDict(<<>>))),
            Item(k_automountServiceAccountToken, PyBool(FALSE)),
            Item(k_imagePullSecrets,
                 PyList([i \in 1..Len(image_pull_secrets.v) |->
                           PyDict(<<Item(k_name, image_pull_secrets.v[i])>>)])),
            Item(k_nameOverride, deployment_name),
            Item(k_fullnameOverride, deployment_name),
            Item(k_serviceAccount,
                 PyDict(<<Item(k_name, service_account_name)>>)),
            Item(k_probes, probes),
            Item(k_env, env_vars),
            Item(k_args, IfElse(args, PyList(<<>>)))>>)
    IN  [values |-> values,
         deployment_name |-> deployment_name,
         service_name |-> service_name,
         service_account_name |-> service_account_name]

\* the fixed blocks installed by the yes answers
\* faulty variant: the quantities of limits and requests exchanged
ResourcesBlockSwapped ==
    PyDict(<<
        Item(k_limits, PyDict(<<Item(k_cpu, PyStr(s_100m)),
                                Item(k_memory, PyStr(s_256Mi))>>)),
        Item(k_requests, PyDict(<<Item(k_cpu, PyStr(s_0_5)),
                                  Item(k_memory, PyStr(s_512Mi))>>))>>)

ResourcesBlock ==
    PyDict(<<
        Item(k_limits, PyDict(<<Item(k_cpu, PyStr(s_0_5)),
                                Item(k_memory, PyStr(s_512Mi))>>)),
        Item(k_requests, PyDict(<<Item(k_cpu, PyStr(s_100m)),
                                  Item(k_memory, PyStr(s_256Mi))>>))>>)

\* variant with a read-only root filesystem
SecurityContextBlockReadOnly ==
    PyDict(<<
        Item(k_allowPrivilegeEscalation, PyBool(FALSE)),
        Item(k_readOnlyRootFilesystem, PyBool(TRUE)),
        Item(k_runAsNonRoot, PyBool(TRUE)),
        Item(k_runAsUser, PyInt(1000))>>)

SecurityContextBlock ==
    PyDict(<<
        Item(k_allowPrivilegeEscalation, PyBool(FALSE)),
        Item(k_readOnlyRootFilesystem, PyBool(FALSE)),
        Item(k_runAsNonRoot, PyBool(TRUE)),
        Item(k_runAsUser, PyInt(1000))>>)

ProbesDisabled == PyDict(<<Item(k_enabled, PyBool(FALSE))>>)

ProbesBlock ==
    PyDict(<<
        Item(k_enabled, PyBool(TRUE)),
        Item(k_settings, PyDict(<<
            Item(k_livenessProbeInitialDelaySeconds, PyInt(180)),
            Item(k_readinessProbeInitialDelaySeconds, PyInt(180))>>))>>)

(***************************************************************************)
(* yaml.dump(values, f): PyYAML represents a mapping with its items        *)
(* sorted by key (sort_keys defaults to True), at every nesting level;     *)
(* sequences keep their order.  The document is the resulting node tree.   *)
(***************************************************************************)
RECURSIVE InsertItem(_, _)
InsertItem(item, sorted) ==
    IF sorted = <<>> THEN <<item>>
    ELSE IF StrLess(item.k, Head(sorted).k) THEN <<item>> \o sorted
    ELSE <<Head(sorted)>> \o InsertItem(item, Tail(sorted))

\* variant: yaml.dump(..., sort_keys=False) keeps the insertion order
SortItemsOff(items) == items

RECURSIVE SortItems(_)
SortItems(items) ==
    IF items = <<>> THEN <<>>
    ELSE InsertItem(items[Len(items)],
                    SortItems(SubSeq(items, 1, Len(items) - 1)))

RECURSIVE yaml_dump(_)
yaml_dump(x) ==
    CASE x.t = "dict" ->
           LET sorted == SortItems(x.v)
           IN  PyDict([i \in 1..Len(sorted) |->
                         Item(sorted[i].k, yaml_dump(sorted[i].v))])
      [] x.t = "list" -> PyList([i \in 1..Len(x.v) |-> yaml_dump(x.v[i])])
      [] OTHER -> x

(***************************************************************************)
(* Texts.  A text is the sequence of the lines between its newline         *)
(* characters (str.split("\n")): the empty string is the single empty      *)
(* line.  A line is its literal text and the values interpolated into      *)
(* its {} holes.                                                           *)
(***************************************************************************)
Line(text) == [text |-> text, args |-> <<>>]
Fmt(text, values) == [text |-> text, args |-> values]
EmptyText == <<Line("")>>

\* the literal returned by generate_deployment
DeploymentTemplate ==
    <<
      Line(""),
      Line("apiVersion: apps/v1"),
      Line("kind: Deployment"),
      Line("metadata:"),
      Line("  name: {{ .Values.nameOverride | default .Chart.Name }}"),
      Line("  namespace: {{ .Values.namespace }}"),
      Line("spec:"),
      Line("  replicas: {{ .Values.replicaCount }}"),
      Line("  selector:"),
      Line("    matchLabels:"),
      Line("      app: {{ .Values.nameOverride | default .Chart.Name }}"),
      Line("  template:"),
      Line("    metadata:"),
      Line("      labels:"),
      Line("        app: {{ .Values.nameOverride | default .Chart.Name }}"),
      Line("    spec:"),
      Line("      containers:"),
      Line("      - name: {{ .Values.nameOverride | default .Chart.Name }}"),
      Line("        image: {{ .Values.image.repository }}:{{ .Values.image.tag }}"),
      Line("        imagePullPolicy: {{ .Values.image.pullPolicy }}"),
      Line("        {{- if .Values.env }}"),
      Line("        env:"),
      Line("        {{- range .Values.env }}"),
      Line("        - name: {{ .name }}"),
      Line("          value: {{ .value }}"),
      Line("        {{- end }}"),
      Line("        {{- end }}"),
      Line("        {{- if .Values.args }}"),
      Line("        args:"),
      Line("        {{- range .Values.args }}"),
      Line("        - {{ . }}"),
      Line("        {{- end }}"),
      Line("        {{- end }}"),
      Line("        {{- if .Values.resources }}"),
      Line("        resources:"),
      Line("          requests:"),
      Line("            memory: {{ .Values.resources.requests.memory }}"),
      Line("            cpu: {{ .Values.resources.requests.cpu }}"),
      Line("          limits:"),
      Line("            memory: {{ .Values.resources.limits.memory }}"),
      Line("            cpu: {{ .Values.resources.limits.cpu }}"),
      Line("        {{- end }}"),
      Line("        {{- if .Values.securityContext }}"),
      Line("        securityContext:"),
      Line("          {{- toYaml .Values.securityContext | nindent 10 }}"),
      Line("        {{- end }}"),
      Line("        {{- if .Values.probes.enabled }}"),
      Line("        livenessProbe:"),
      Line("          initialDelaySeconds: {{ .Values.probes.settings.livenessProbeInitialDelaySeconds }}"),
      Line("        readinessProbe:"),
      Line("          initialDelaySeconds: {{ .Values.probes.settings.readinessProbeInitialDelaySeconds }}"),
      Line("        {{- end }}"),
      Line("      serviceAccountName: {{ .Values.serviceAccount.name }}"),
      Line("      automountServiceAccountToken: {{ .Values.automountServiceAccountToken }}"),
      Line("      {{- if .Values.imagePullSecrets }}"),
      Line("      imagePullSecrets:"),
      Line("      {{- range .Values.imagePullSecrets }}"),
      Line("      - name: {{ .name }}"),
      Line("      {{- end }}"),
      Line("      {{- end }}"),
      Line("")
    >>

\* the literal returned by generate_serviceaccount
ServiceAccountTemplate ==
    <<
      Line(""),
      Line("apiVersion: v1"),
      Line("kind: ServiceAccount"),
      Line("metadata:"),
      Line("  name: {{ .Values.serviceAccount.name }}"),
      Line("  namespace: {{ .Values.namespace }}"),
      Line("")
    >>

\* the literal returned by generate_rbac for '1'
ClusterRoleTemplate ==
    <<
      Line(""),
      Line("apiVersion: rbac.authorization.k8s.io/v1"),
      Line("kind: ClusterRole"),
      Line("metadata:"),
      Line("  name: {{ .Values.serviceAccount.name }}"),
      Line("rules:"),
      Line("  - apiGroups: [\"\"]"),
      Line("    resources: [\"services\",\"endpoints\",\"pods\"]"),
      Line("    verbs: [\"get\",\"watch\",\"list\"]"),
      Line("  - apiGroups: [\"extensions\",\"networking.k8s.io\"]"),
      Line("    resources: [\"ingresses\"]"),
      Line("    verbs: [\"get\",\"watch\",\"list\"]"),
      Line("  - apiGroups: [\"\"]"),
      Line("    resources: [\"nodes\"]"),
      Line("    verbs: [\"list\"]"),
      Line("---"),
      Line("apiVersion: rbac.authorization.k8s.io/v1"),
      Line("kind: ClusterRoleBinding"),
      Line("metadata:"),
      Line("  name: {{ .Values.serviceAccount.name }}-binding"),
      Line("roleRef:"),
      Line("  apiGroup: rbac.authorization.k8s.io"),
      Line("  kind: ClusterRole"),
      Line("  name: {{ .Values.serviceAccount.name }}"),
      Line("subjects:"),
      Line("  - kind: ServiceAccount"),
      Line("    name: {{ .Values.serviceAccount.name }}"),
      Line("    namespace: {{ .Values.namespace }}"),
      Line("")
    >>

\* the literal returned by generate_rbac for '2'
RoleTemplate ==
    <<
      Line(""),
      Line("apiVersion: rbac.authorization.k8s.io/v1"),
      Line("kind: Role"),
      Line("metadata:"),
      Line("  name: {{ .Values.serviceAccount.name }}"),
      Line("  namespace: {{ .Values.namespace }}"),
      Line("rules:"),
      Line("  - apiGroups: [\"\"]"),
      Line("    resources: [\"services\",\"endpoints\",\"pods\"]"),
      Line("    verbs: [\"get\",\"watch\",\"list\"]"),
      Line("  - apiGroups: [\"extensions\",\"networking.k8s.io\"]"),
      Line("    resources: [\"ingresses\"]"),
      Line("    verbs: [\"get\",\"watch\",\"list\"]"),
      Line("  - apiGroups: [\"\"]"),
      Line("    resources: [\"nodes\"]"),
      Line("    verbs: [\"list\"]"),
      Line("---"),
      Line("apiVersion: rbac.authorization.k8s.io/v1"),
      Line("kind: RoleBinding"),
      Line("metadata:"),
      Line("  name: {{ .Values.serviceAccount.name }}-binding"),
      Line("roleRef:"),
      Line("  apiGroup: rbac.authorization.k8s.io"),
      Line("  kind: Role"),
      Line("  name: {{ .Values.serviceAccount.name }}"),
      Line("subjects:"),
      Line("  - kind: ServiceAccount"),
      Line("    name: {{ .Values.serviceAccount.name }}"),
      Line("    namespace: {{ .Values.namespace }}"),
      Line("")
    >>

\* generate_deployment
generate_deployment(values) == DeploymentTemplate

\* generate_serviceaccount
generate_serviceaccount(values) ==
    IF /\ HasKey(values, k_serviceAccount)
       /\ HasKey(Get(values, k_serviceAccount), k_name)
       /\ Truthy(Get(Get(values, k_serviceAccount), k_name))
    THEN ServiceAccountTemplate
    ELSE EmptyText

\* faulty variant: every answer other than '1' and '0' selects the Role pair
generate_rbac_role_otherwise(rbac_type, values) ==
    IF rbac_type = PyStr(s_1) THEN ClusterRoleTemplate
    ELSE IF rbac_type = PyStr(s_0) THEN EmptyText
    ELSE RoleTemplate

\* generate_rbac
generate_rbac(rbac_type, values) ==
    IF rbac_type = PyStr(s_1) THEN ClusterRoleTemplate
    ELSE IF rbac_type = PyStr(s_2) THEN RoleTemplate
    ELSE EmptyText

\* the f-string written to Chart.yaml
ChartDescriptor(chart_name) ==
    <<Line(""),
      Line("apiVersion: v2"),
      Fmt("name: {}", <<chart_name.v>>),
      Line("description: A Helm chart for Kubernetes"),
      Line("version: 0.1.0"),
      Line("    ")>>

(***************************************************************************)
(* The lines the operator may type at each prompt.                         *)
(***************************************************************************)
ChartNameInputs == {<<"d", "e", "m", "o">>}
NamespaceInputs == {<<>>}
ImageInputs == {<<"i", "m", "g">>}
ReplicaInputs == {<<>>, <<"0">>, <<"-", "2">>, <<"a", "b", "c">>, <<"-">>}
YesNoInputs == {<<>>, <<"y", "e", "s">>}
AddEnvInputs == {<<"n", "o">>, <<"Y", "E", "S">>}
EnvInputs == {<<>>, <<"A", "=", "1">>, <<"A", "=", "b", "=", "c">>,
              <<"B", "A", "D">>}
ArgInputs == {<<>>, <<"-", "v">>, <<"x">>}
SecretInputs == {<<"r", "e", "g">>}
ProbeInputs == {<<"y", "e", "s">>}
RbacInputs == {<<>>, <<"1">>, <<"2">>, <<"x">>}

(***************************************************************************)
(* State: the position in generate_chart_files, the lines read from        *)
(* stdin so far, the function's local variables, the exception that ended  *)
(* the run, the artifacts rendered so far, and the file system under the   *)
(* working directory.                                                      *)
(***************************************************************************)
VARIABLES pc, transcript, chart_name, namespace, image, replicas, env_vars,
          args, resources, security_context, image_pull_secrets, probes,
          rbac_type, values, err, rendered, dirs, files

locals == <<chart_name, namespace, image, replicas, env_vars, args, resources,
            security_context, image_pull_secrets, probes, rbac_type, values>>
fs == <<dirs, files>>
vars == <<pc, transcript, locals, err, rendered, fs>>

\* a local variable that has not been assigned yet
Unbound == [t |-> "unbound"]

\* one line read from stdin in answer to question q
Read(q, line) == transcript' = Append(transcript, [q |-> q, a |-> line])

\* os.path.join(chart_name, rel)
Path(root, rel) == [root |-> root.v, rel |-> rel]

Init ==
    /\ pc = "chart_name"
    /\ transcript = <<>>
    /\ chart_name = Unbound
    /\ namespace = Unbound
    /\ image = Unbound
    /\ replicas = Unbound
    /\ env_vars = Unbound
    /\ args = Unbound
    /\ resources = Unbound
    /\ security_context = Unbound
    /\ image_pull_secrets = Unbound
    /\ probes = Unbound
    /\ rbac_type = Unbound
    /\ values = Unbound
    /\ err = "none"
    /\ rendered = {}
    /\ dirs = {}
    /\ files = <<>>

\* an uncaught exception ends the run
Raise(e) ==
    /\ pc' = "raised"
    /\ err' = e

AskChartName ==
    /\ pc = "chart_name"
    /\ \E line \in ChartNameInputs :
         /\ Read("chart_name", line)
         /\ chart_name' = ask_question(line, PyStr(s_my_chart))
    /\ pc' = "namespace"
    /\ UNCHANGED <<namespace, image, replicas, env_vars, args, resources,
                   security_context, image_pull_secrets, probes, rbac_type,
                   values, err, rendered, fs>>

AskNamespace ==
    /\ pc = "namespace"
    /\ \E line \in NamespaceInputs :
         /\ Read("namespace", line)
         /\ namespace' = ask_question(line, PyStr(s_default))
    /\ pc' = "image"
    /\ UNCHANGED <<chart_name, image, replicas, env_vars, args, resources,
                   security_context, image_pull_secrets, probes, rbac_type,
                   values, err, rendered, fs>>

AskImage ==
    /\ pc = "image"
    /\ \E line \in ImageInputs :
         /\ Read("image", line)
         /\ image' = ask_question(line, PyStr(s_my_image))
    /\ pc' = "replicas"
    /\ UNCHANGED <<chart_name, namespace, replicas, env_vars, args, resources,
                   security_context, image_pull_secrets, probes, rbac_type,
                   values, err, rendered, fs>>

\* replicas = int(ask_question(...)); env_vars = []
AskReplicas ==
    /\ pc = "replicas"
    /\ \E line \in ReplicaInputs :
         /\ Read("replicas", line)
         /\ LET answer == ask_question(line, PyStr(s_1))
            IN  IF IsIntLiteral(answer.v)
                THEN /\ replicas' = PyInt(IntValue(answer.v))
                     /\ env_vars' = PyList(<<>>)
                     /\ pc' = "add_env"
                     /\ UNCHANGED err
                ELSE /\ Raise("ValueError")
                     /\ UNCHANGED <<replicas, env_vars>>
    /\ UNCHANGED <<chart_name, namespace, image, args, resources,
                   security_context, image_pull_secrets, probes, rbac_type,
                   values, rendered, fs>>

AskAddEnv ==
    /\ pc = "add_env"
    /\ \E line \in AddEnvInputs :
         /\ Read("add_env", line)
         /\ LET add_env == StrLower(ask_question(line, PyStr(s_no)).v)
            IN  IF add_env = s_yes
                THEN /\ pc' = "env_input"
                     /\ UNCHANGED args
                ELSE /\ pc' = "add_args"
                     /\ args' = PyList(<<>>)
    /\ UNCHANGED <<chart_name, namespace, image, replicas, env_vars, resources,
                   security_context, image_pull_secrets, probes, rbac_type,
                   values, err, rendered, fs>>

\* one turn of the `while True` loop that collects key=value entries
AskEnv ==
    /\ pc = "env_input"
    /\ \E line \in (IF Len(env_vars.v) < MaxEnv THEN EnvInputs ELSE {<<>>}) :
         /\ Read("env_input", line)
         /\ LET env_input == ask_question(line, PyNone)
            IN  IF ~Truthy(env_input)
                THEN /\ pc' = "add_args"
                     /\ args' = PyList(<<>>)
                     /\ UNCHANGED <<env_vars, err>>
                ELSE LET parts == Split1(env_input.v, "=")
                     IN  IF Len(parts) = 2
                         THEN /\ env_vars' = append(env_vars,
                                    PyDict(<<Item(k_name, PyStr(parts[1])),
                                             Item(k_value, PyStr(parts[2]))>>))
                              /\ UNCHANGED <<pc, args, err>>
                         ELSE /\ Raise("ValueError")
                              /\ UNCHANGED <<env_vars, args>>
    /\ UNCHANGED <<chart_name, namespace, image, replicas, resources,
                   security_context, image_pull_secrets, probes, rbac_type,
                   values, rendered, fs>>

AskAddArgs ==
    /\ pc = "add_args"
    /\ \E line \in YesNoInputs :
         /\ Read("add_args", line)
         /\ LET add_args == StrLower(ask_question(line, PyStr(s_no)).v)
            IN  IF add_args = s_yes
                THEN /\ pc' = "arg"
                     /\ UNCHANGED resources
                ELSE /\ pc' = "add_resources"
                     /\ resources' = PyNone
    /\ UNCHANGED <<chart_name, namespace, image, replicas, env_vars, args,
                   security_context, image_pull_secrets, probes, rbac_type,
                   values, err, rendered, fs>>

\* one turn of the `while True` loop that collects arguments
AskArg ==
    /\ pc = "arg"
    /\ \E line \in (IF Len(args.v) < MaxArgs THEN ArgInputs ELSE {<<>>}) :
         /\ Read("arg", line)
         /\ LET arg == ask_question(line, PyNone)
            IN  IF ~Truthy(arg)
                THEN /\ pc' = "add_resources"
                     /\ resources' = PyNone
                     /\ UNCHANGED args
                ELSE /\ args' = append(args, arg)
                     /\ UNCHANGED <<pc, resources>>
    /\ UNCHANGED <<chart_name, namespace, image, replicas, env_vars,
                   security_context, image_pull_secrets, probes, rbac_type,
                   values, err, rendered, fs>>

AskAddResources ==
    /\ pc = "add_resources"
    /\ \E line \in YesNoInputs :
         /\ Read("add_resources", line)
         /\ LET add_resources == StrLower(ask_question(line, PyStr(s_no)).v)
            IN  IF add_resources = s_yes
                THEN resources' = ResourcesBlock
                ELSE UNCHANGED resources
    /\ security_context' = PyNone
    /\ pc' = "add_security_context"
    /\ UNCHANGED <<chart_name, namespace, image, replicas, env_vars, args,
                   image_pull_secrets, probes, rbac_type, values, err,
                   rendered, fs>>

AskAddSecurityContext ==
    /\ pc = "add_security_context"
    /\ \E line \in YesNoInputs :
         /\ Read("add_security_context", line)
         /\ LET add_security_context ==
                    StrLower(ask_question(line, PyStr(s_no)).v)
            IN  IF add_security_context = s_yes
                THEN security_context' = SecurityContextBlock
                ELSE UNCHANGED security_context
    /\ image_pull_secrets' = PyList(<<>>)
    /\ pc' = "add_image_pull_secrets"
    /\ UNCHANGED <<chart_name, namespace, image, replicas, env_vars, args,
                   resources, probes, rbac_type, values, err, rendered, fs>>

AskAddImagePullSecrets ==
    /\ pc = "add_image_pull_secrets"
    /\ \E line \in YesNoInputs :
         /\ Read("add_image_pull_secrets", line)
         /\ LET add_image_pull_secrets ==
                    StrLower(ask_question(line, PyStr(s_no)).v)
            IN  IF add_image_pull_secrets = s_yes
                THEN /\ pc' = "secret_name"
                     /\ UNCHANGED probes
                ELSE /\ pc' = "add_probes"
                     /\ probes' = ProbesDisabled
    /\ UNCHANGED <<chart_name, namespace, image, replicas, env_vars, args,
                   resources, security_context, image_pull_secrets, rbac_type,
                   values, err, rendered, fs>>

AskSecretName ==
    /\ pc = "secret_name"
    /\ \E line \in SecretInputs :
         /\ Read("secret_name", line)
         /\ image_pull_secrets' =
                append(image_pull_secrets, ask_question(line, PyNone))
    /\ probes' = ProbesDisabled
    /\ pc' = "add_probes"
    /\ UNCHANGED <<chart_name, namespace, image, replicas, env_vars, args,
                   resources, security_context, rbac_type, values, err,
                   rendered, fs>>

AskAddProbes ==
    /\ pc = "add_probes"
    /\ \E line \in ProbeInputs :
         /\ Read("add_probes", line)
         /\ LET add_probes == StrLower(ask_question(line, PyStr(s_no)).v)
            IN  IF add_probes = s_yes
                THEN probes' = ProbesBlock
                ELSE UNCHANGED probes
    /\ pc' = "rbac_type"
    /\ UNCHANGED <<chart_name, namespace, image, replicas, env_vars, args,
                   resources, security_context, image_pull_secrets, rbac_type,
                   values, err, rendered, fs>>

\* faulty variant: the chart directory is created as soon as the last answer
\* is read, before the values document is assembled
AskRbacThenMakeDirs ==
    /\ pc = "rbac_type"
    /\ \E line \in RbacInputs :
         /\ Read("rbac_type", line)
         /\ rbac_type' = ask_question(line, PyStr(s_0))
    /\ dirs' = dirs \cup {Path(chart_name, ""), Path(chart_name, "templates")}
    /\ pc' = "generate_values"
    /\ UNCHANGED <<chart_name, namespace, image, replicas, env_vars, args,
                   resources, security_context, image_pull_secrets, probes,
                   values, err, rendered, files>>

AskRbac ==
    /\ pc = "rbac_type"
    /\ \E line \in RbacInputs :
         /\ Read("rbac_type", line)
         /\ rbac_type' = ask_question(line, PyStr(s_0))
    /\ pc' = "generate_values"
    /\ UNCHANGED <<chart_name, namespace, image, replicas, env_vars, args,
                   resources, security_context, image_pull_secrets, probes,
                   values, err, rendered, fs>>

\* values, deployment_name, service_name, service_account_name =
\*     generate_values(...)
GenerateValues ==
    /\ pc = "generate_values"
    /\ values' = generate_values(chart_name, namespace, image, replicas,
                                 env_vars, args, resources, security_context,
                                 image_pull_secrets, probes).values
    /\ pc' = "makedirs"
    /\ UNCHANGED <<transcript, chart_name, namespace, image, replicas,
                   env_vars, args, resources, security_context,
                   image_pull_secrets, probes, rbac_type, err, rendered, fs>>

\* os.makedirs(os.path.join(chart_name, "templates"), exist_ok=True)
MakeDirs ==
    /\ pc = "makedirs"
    /\ dirs' = dirs \cup {Path(chart_name, ""), Path(chart_name, "templates")}
    /\ pc' = "write_chart"
    /\ UNCHANGED <<transcript, locals, err, rendered, files>>

\* open(path, "w") followed by the write of the whole text
WriteFile(path, content) == files' = (path :> content) @@ files

WriteChart ==
    /\ pc = "write_chart"
    /\ WriteFile(Path(chart_name, "Chart.yaml"), ChartDescriptor(chart_name))
    /\ rendered' = rendered \cup {"Chart.yaml"}
    /\ pc' = "write_values"
    /\ UNCHANGED <<transcript, locals, err, dirs>>

WriteValues ==
    /\ pc = "write_values"
    /\ WriteFile(Path(chart_name, "values.yaml"), yaml_dump(values))
    /\ rendered' = rendered \cup {"values.yaml"}
    /\ pc' = "write_deployment"
    /\ UNCHANGED <<transcript, locals, err, dirs>>

WriteDeployment ==
    /\ pc = "write_deployment"
    /\ WriteFile(Path(chart_name, "templates/deployment.yaml"),
                 generate_deployment(values))
    /\ rendered' = rendered \cup {"templates/deployment.yaml"}
    /\ pc' = "write_serviceaccount"
    /\ UNCHANGED <<transcript, locals, err, dirs>>

WriteServiceAccount ==
    /\ pc = "write_serviceaccount"
    /\ WriteFile(Path(chart_name, "templates/serviceaccount.yaml"),
                 generate_serviceaccount(values))
    /\ rendered' = rendered \cup {"templates/serviceaccount.yaml"}
    /\ pc' = "write_rbac"
    /\ UNCHANGED <<transcript, locals, err, dirs>>

\* the last write, then the completion message
WriteRbac ==
    /\ pc = "write_rbac"
    /\ WriteFile(Path(chart_name, "templates/rbac.yaml"),
                 generate_rbac(rbac_type, values))
    /\ rendered' = rendered \cup {"templates/rbac.yaml"}
    /\ pc' = "done"
    /\ UNCHANGED <<transcript, locals, err, dirs>>

Next ==
    \/ AskChartName
    \/ AskNamespace
    \/ AskImage
    \/ AskReplicas
    \/ AskAddEnv
    \/ AskEnv
    \/ AskAddArgs
    \/ AskArg
    \/ AskAddResources
    \/ AskAddSecurityContext
    \/ AskAddImagePullSecrets
    \/ AskSecretName
    \/ AskAddProbes
    \/ AskRbac
    \/ GenerateValues
    \/ MakeDirs
    \/ WriteChart
    \/ WriteValues
    \/ WriteDeployment
    \/ WriteServiceAccount
    \/ WriteRbac

Spec == Init /\ [][Next]_vars

(***************************************************************************)
(* Properties.                                                             *)
(***************************************************************************)

\* the lines typed in answer to question q, in the order they were read
Answers(q) == SelectSeq(transcript, LAMBDA e : e.q = q)
Asked(q) == Answers(q) # <<>>
LastAnswer(q) == Answers(q)[Len(Answers(q))].a
\* the operator answered yes (in any letter case) to the yes/no question q
SaidYes(q) == Asked(q) /\ StrLower(LastAnswer(q)) = <<"y", "e", "s">>
Assembled == values # Unbound

DigitChars == {"0", "1", "2", "3", "4", "5", "6", "7", "8", "9"}
\* s is a decimal integer: digits, at least one, after an optional sign
WellFormedInteger(s) ==
    LET digitPos == {i \in 1..Len(s) : s[i] \in DigitChars}
        signPos == {i \in {1} \cap (1..Len(s)) : s[i] \in {"+", "-"}}
    IN  digitPos # {} /\ (1..Len(s)) \ digitPos \subseteq signPos
\* the replica answer after default substitution
ReplicaAnswer(line) == IF line = <<>> THEN <<"1">> ELSE line
\* a non-empty environment entry without '='
MalformedEnvEntry(line) ==
    line # <<>> /\ \A i \in 1..Len(line) : line[i] # "="
MalformedAnswer(e) ==
    \/ e.q = "replicas" /\ ~WellFormedInteger(ReplicaAnswer(e.a))
    \/ e.q = "env_input" /\ MalformedEnvEntry(e.a)

\* C1: a replica answer that is not an integer, or a non-empty environment
\* entry without '=', ends the run with the error at once: the run is in the
\* raised state exactly when the last line read is such an answer, no further
\* prompt has been read after it, and neither a directory nor a file exists.
C1_InputErrorEndsRunBeforeWrites ==
    /\ pc = "raised" =>
          /\ err = "ValueError"
          /\ MalformedAnswer(transcript[Len(transcript)])
          /\ dirs = {} /\ DOMAIN files = {}
    /\ pc # "raised" =>
          /\ err = "none"
          /\ \A i \in 1..Len(transcript) : ~MalformedAnswer(transcript[i])

C1_Witness ==
    /\ pc = "raised"
    /\ transcript[Len(transcript)].q = "env_input"
    /\ Len(env_vars.v) = 1

\* the texts and documents written so far
Written(rel) == chart_name # Unbound /\ Path(chart_name, rel) \in DOMAIN files
File(rel) == files[Path(chart_name, rel)]
HasLine(text, l) == \E i \in 1..Len(text) : text[i].text = l
\* the lines of text from position i on are exactly the literal lines ls
BlockAt(text, i, ls) ==
    /\ i + Len(ls) - 1 <= Len(text)
    /\ \A j \in 1..Len(ls) : text[i + j - 1] = Line(ls[j])
HasBlock(text, ls) == \E i \in 1..Len(text) : BlockAt(text, i, ls)
\* every value interpolated into the text, in the order of appearance
RECURSIVE Interpolated(_)
Interpolated(text) ==
    IF text = <<>> THEN <<>> ELSE Head(text).args \o Interpolated(Tail(text))

\* the entries typed in an input loop before its first empty entry
Entered(q) ==
    LET as == Answers(q)
        n == CHOOSE m \in 0..Len(as) :
                 /\ \A i \in 1..m : as[i].a # <<>>
                 /\ m = Len(as) \/ as[m + 1].a = <<>>
    IN  [i \in 1..n |-> as[i].a]

\* C2 as stated: declined, neither the values document nor the deployment
\* text has a resources section; accepted, both show the four fixed values.
ResourcesIn(doc) == Get(doc, k_resources)
FixedResources ==
    PyDict(<<Item(k_limits, PyDict(<<Item(k_cpu, PyStr(<<"0", ".", "5">>)),
                                     Item(k_memory, PyStr(<<"5", "1", "2", "M", "i">>))>>)),
             Item(k_requests, PyDict(<<Item(k_cpu, PyStr(<<"1", "0", "0", "m">>)),
                                       Item(k_memory, PyStr(<<"2", "5", "6", "M", "i">>))>>))>>)
ShowsFixedResources(text) ==
    \/ HasBlock(text, <<"        resources:",
                        "          requests:",
                        "            memory: 256Mi",
                        "            cpu: 100m",
                        "          limits:",
                        "            memory: 512Mi",
                        "            cpu: 0.5">>)
    \/ \A v \in {s_100m, s_256Mi, s_0_5, s_512Mi} :
          \E i \in 1..Len(Interpolated(text)) : Interpolated(text)[i] = v
C2_AsStated ==
    pc = "done" =>
        IF SaidYes("add_resources")
        THEN /\ ResourcesIn(values) = FixedResources
             /\ ShowsFixedResources(File("templates/deployment.yaml"))
        ELSE /\ ~Truthy(ResourcesIn(values))
             /\ ~HasLine(File("templates/deployment.yaml"), "        resources:")

\* C2 (amended): declined, the resources entry of the values document is the
\* empty mapping; accepted, it is the fixed block (requests cpu=100m,
\* memory=256Mi; limits cpu=0.5, memory=512Mi).  The deployment text is the
\* same in both cases: it always holds the resources block, guarded by the
\* placeholder test on .Values.resources and naming the four settings by
\* placeholder, with no concrete value in it.
C2_ResourcesInValuesTemplateFixed ==
    pc = "done" =>
        /\ HasKey(values, k_resources)
        /\ ResourcesIn(values) =
              IF SaidYes("add_resources") THEN FixedResources ELSE PyDict(<<>>)
        /\ ResourcesIn(File("values.yaml")) = ResourcesIn(values)
        /\ HasBlock(File("templates/deployment.yaml"),
                    <<"        {{- if .Values.resources }}",
                      "        resources:",
                      "          requests:",
                      "            memory: {{ .Values.resources.requests.memory }}",
                      "            cpu: {{ .Values.resources.requests.cpu }}",
                      "          limits:",
                      "            memory: {{ .Values.resources.limits.memory }}",
                      "            cpu: {{ .Values.resources.limits.cpu }}",
                      "        {{- end }}">>)
        /\ Interpolated(File("templates/deployment.yaml")) = <<>>

C2_Witness ==
    /\ pc = "done"
    /\ SaidYes("add_resources")
    /\ Truthy(ResourcesIn(values))

\* the documents of a text: the stretches of lines between "---" lines
Separators(text) == {i \in 1..Len(text) : text[i] = Line("---")}
NumDocuments(text) ==
    IF text = EmptyText THEN 0 ELSE Cardinality(Separators(text)) + 1
FirstDocument(text) ==
    SubSeq(text, 1, (CHOOSE i \in Separators(text) : TRUE) - 1)
SecondDocument(text) ==
    SubSeq(text, (CHOOSE i \in Separators(text) : TRUE) + 1, Len(text))
\* the resource kind a document declares (its `kind:` line at column 0)
DeclaredKinds(text) ==
    SelectSeq([i \in 1..Len(text) |-> text[i].text],
              LAMBDA l : l \in {"kind: ClusterRole", "kind: ClusterRoleBinding",
                                "kind: Role", "kind: RoleBinding",
                                "kind: ServiceAccount", "kind: Deployment"})

SecurityContextIn(doc) == Get(doc, k_securityContext)
C4_AsStated ==
    Assembled =>
        IF SaidYes("add_security_context")
        THEN SecurityContextIn(values) =
                PyDict(<<Item(k_allowPrivilegeEscalation, PyBool(FALSE)),
                         Item(k_readOnlyRootFilesystem, PyBool(TRUE)),
                         Item(k_runAsNonRoot, PyBool(TRUE)),
                         Item(k_runAsUser, PyInt(1000))>>)
        ELSE SecurityContextIn(values) = PyDict(<<>>)

\* C4 (amended): after a yes, the security context of the values document
\* is the fixed block that disallows privilege escalation, leaves the root
\* filesystem writable (readOnlyRootFilesystem is false), runs as non-root
\* and uses UID 1000; after a no, it is the empty mapping.
C4_SecurityContextFixedBlock ==
    Assembled =>
        IF SaidYes("add_security_context")
        THEN SecurityContextIn(values) =
                PyDict(<<Item(k_allowPrivilegeEscalation, PyBool(FALSE)),
                         Item(k_readOnlyRootFilesystem, PyBool(FALSE)),
                         Item(k_runAsNonRoot, PyBool(TRUE)),
                         Item(k_runAsUser, PyInt(1000))>>)
        ELSE SecurityContextIn(values) = PyDict(<<>>)

C4_Witness ==
    /\ Assembled
    /\ SaidYes("add_security_context")
    /\ Truthy(SecurityContextIn(values))

\* C5 as stated: the top-level keys of the written values.yaml come in the
\* insertion order of the values document.
InsertionOrder ==
    <<k_namespace, k_replicaCount, k_image, k_resources, k_securityContext,
      k_automountServiceAccountToken, k_imagePullSecrets, k_nameOverride,
      k_fullnameOverride, k_serviceAccount, k_probes, k_env, k_args>>
C6_ArgsAlwaysList ==
    Assembled =>
        /\ HasKey(values, k_args)
        /\ Get(values, k_args).t = "list"
        /\ Get(values, k_args).v =
              [i \in 1..Len(Entered("arg")) |-> PyStr(Entered("arg")[i])]
        /\ ~SaidYes("add_args") => Get(values, k_args).v = <<>>

C6_Witness ==
    /\ Assembled
    /\ Len(Get(values, k_args).v) = 2
    /\ Get(values, k_args).v[1] # Get(values, k_args).v[2]

\* name and value of a well-formed entry: the name is what precedes the
\* first '=', the value all that follows it
NameOf(e) ==
    CHOOSE n \in {SubSeq(e, 1, m) : m \in 0..(Len(e) - 1)} :
        /\ \A i \in 1..Len(n) : n[i] # "="
        /\ e[Len(n) + 1] = "="
ValueOf(e) == SubSeq(e, Len(NameOf(e)) + 2, Len(e))
EnteredPairs ==
    [i \in 1..Len(Entered("env_input")) |->
        PyDict(<<Item(k_name, PyStr(NameOf(Entered("env_input")[i]))),
                 Item(k_value, PyStr(ValueOf(Entered("env_input")[i])))>>)]
RECURSIVE NamesAndValues(_)
NamesAndValues(es) ==
    IF es = <<>> THEN <<>>
    ELSE <<NameOf(Head(es)), ValueOf(Head(es))>> \o NamesAndValues(Tail(es))
EnvBlock ==
    <<"        {{- if .Values.env }}",
      "        env:",
      "        {{- range .Values.env }}",
      "        - name: {{ .name }}",
      "          value: {{ .value }}",
      "        {{- end }}",
      "        {{- end }}">>

\* C7 as stated: the env list of the values document holds one name/value
\* pair per entry, in entry order, split at the first '='; and the entries
\* appear, name then value, in that order in the deployment text.
C7_AsStated ==
    pc = "done" =>
        /\ Get(values, k_env) = PyList(EnteredPairs)
        /\ Interpolated(File("templates/deployment.yaml")) =
              NamesAndValues(Entered("env_input"))

\* C7 (amended): the env list of the values document, and of the written
\* values.yaml, holds one name/value pair per entry, in entry order with
\* duplicate names kept, each entry split at its first '=' only.  The
\* deployment text lists no entry: its env block is the same fixed loop over
\* .Values.env for every run, emitting name then value of each element.
C7_EnvInEntryOrder ==
    /\ Assembled => Get(values, k_env) = PyList(EnteredPairs)
    /\ pc = "done" =>
          /\ Get(File("values.yaml"), k_env) = PyList(EnteredPairs)
          /\ HasBlock(File("templates/deployment.yaml"), EnvBlock)
          /\ Interpolated(File("templates/deployment.yaml")) = <<>>

C7_Witness ==
    /\ pc = "done"
    /\ Len(Get(values, k_env).v) = 2
    /\ Get(Get(values, k_env).v[1], k_name) = Get(Get(values, k_env).v[2], k_name)
    /\ Get(Get(values, k_env).v[1], k_value) = PyStr(<<"b", "=", "c">>)
    /\ Get(Get(values, k_env).v[2], k_value) = PyStr(<<"1">>)

Artifacts ==
    {"Chart.yaml", "values.yaml", "templates/deployment.yaml",
     "templates/serviceaccount.yaml", "templates/rbac.yaml"}
WriterPositions ==
    {"write_chart", "write_values", "write_deployment",
     "write_serviceaccount", "write_rbac", "done"}

\* C9 as stated: when the chart directory is created the collector, the
\* assembler and all renderers have completed.
C9_AsStated ==
    dirs # {} => Assembled /\ rendered = Artifacts

\* C9 (amended): the first filesystem operation (creating the chart
\* directory) happens only after the collector and the assembler have
\* completed, and no prompt is read and no values are assembled after it;
\* but no artifact is rendered before it: each artifact is rendered after
\* the directory is created, in the step that writes its file, so rendering
\* is interleaved with the file writes.
C9_WritesAfterAssemblyRenderingInterleaved ==
    /\ dirs # {} =>
          /\ Assembled
          /\ pc \in WriterPositions
          /\ Asked("rbac_type")
    /\ rendered # {} => dirs # {}
    /\ chart_name # Unbound =>
          DOMAIN files = {Path(chart_name, a) : a \in rendered}
    /\ pc = "done" => rendered = Artifacts

C9_Witness ==
    /\ dirs # {}
    /\ rendered = {"Chart.yaml", "values.yaml"}
    /\ pc = "write_deployment"

\* C10 as stated: the replicaCount of an assembled values document is a
\* positive integer.
ReplicaCount == Get(values, k_replicaCount)
C10_AsStated ==
    Assembled => ReplicaCount.t = "int" /\ ReplicaCount.v >= 1

\* C10 (amended): the replicaCount of an assembled values document is an
\* integer with the sign of the answer: 1 for the empty answer, zero when
\* the answer's digits are all 0, negative when the answer is a minus sign
\* before digits that are not all 0, and positive otherwise; it need not be
\* positive.
C10_ReplicaCountAnyInteger ==
    Assembled =>
        LET a == ReplicaAnswer(LastAnswer("replicas"))
            allZero == \A i \in 1..Len(a) : a[i] \in {"0", "+", "-"}
        IN  /\ ReplicaCount.t = "int"
            /\ LastAnswer("replicas") = <<>> => ReplicaCount.v = 1
            /\ allZero <=> ReplicaCount.v = 0
            /\ (~allZero /\ a[1] = "-") <=> ReplicaCount.v < 0

C10_Witness ==
    /\ Assembled
    /\ ReplicaCount.v < 0
    /\ LastAnswer("replicas") = <<"-", "2">>

====
